---------------------------- MODULE Spec2Model ----------------------------
(***************************************************************************)
(* Model of vision/py_scripts/testVision.py: a script that opens a ZED     *)
(* stereo camera through the pyzed SDK, grabs frames, retrieves image and  *)
(* depth data and queries the distance of a pixel.                         *)
(*                                                                         *)
(* The file is used in two ways, both modelled:                            *)
(*   driver = "main"   : run as a script; the block under                  *)
(*                       `if __name__ == "__main__"` runs its five calls   *)
(*                       in order, an uncaught exception ends the process  *)
(*                       with status 1;                                    *)
(*   driver = "import" : imported by a client that calls the functions in  *)
(*                       any order and survives their exceptions (an       *)
(*                       interactive session, a test runner); exit() still *)
(*                       ends the process.                                 *)
(* The device and the SDK are the environment: the result code of open and *)
(* grab, the serial number, the frame and the buffer contents are chosen   *)
(* nondeterministically from small sets.                                   *)
(***************************************************************************)
EXTENDS Integers, Sequences, FiniteSets, TLC

(***************************************************************************)
(* Bounds of the model.                                                    *)
(***************************************************************************)
\* image timestamps delivered by the device are 1..MaxTs
MaxTs == 2
\* serial numbers reported by the device are 1..MaxSerial
MaxSerial == 2

(***************************************************************************)
(* Python values.  A float or int is a record [k, v]; k tells finite, nan  *)
(* and inf apart.  A 2-tuple, as returned by sl.Mat.get_value, is a record *)
(* [k |-> "tuple", err, val].                                              *)
(***************************************************************************)
None == [k |-> "none"]
Fin(n) == [k |-> "fin", v |-> n]
NaN == [k |-> "nan", v |-> 0]
Inf == [k |-> "inf", v |-> 0]
Tuple2(e, x) == [k |-> "tuple", err |-> e, val |-> x]
Handle == [k |-> "handle"]

IsScalar(x) == x.k \in {"fin", "nan", "inf"}

\* a printed line: the literal text and the values formatted into it
Line(t, a) == [text |-> t, args |-> a]

(***************************************************************************)
(* The SDK as the script sees it.                                          *)
(***************************************************************************)
\* members of the enumeration sl.ERROR_CODE (a subset; all upper case)
ERROR_CODE == {"SUCCESS", "FAILURE", "CAMERA_NOT_DETECTED"}

\* members of the enumeration sl.MEASURE used by the script
MEASURE == {"DEPTH", "XYZRGBA"}

\* Python attribute access on an enumeration class: the member of that
\* name, or AttributeError when the class has no such member
GetAttr(enum, name) ==
    IF name \in enum THEN [ok |-> TRUE, v |-> name]
                     ELSE [ok |-> FALSE, v |-> "AttributeError"]

\* truth value of an enum.Enum member: members are plain objects, always true
Truthy(member) == TRUE

\* camera lifecycle states of a sl.Camera object
CamStates == {"Unopened", "Open", "Closed"}

\* result codes Camera.open can deliver
OpenResults == ERROR_CODE

\* result codes Camera.grab can deliver: anything on an open camera, never
\* SUCCESS on a camera that is not open
GrabResults(cs) == IF cs = "Open" THEN ERROR_CODE ELSE ERROR_CODE \ {"SUCCESS"}

\* image sizes the device delivers (HD720 and a second resolution, since
\* captureImage accepts any camera object)
ImageSizes == {<<1280, 720>>, <<672, 376>>}

\* what the device holds after a grab: the left image's size, the image
\* timestamp and the current time
Frames ==
    {[w |-> s[1], h |-> s[2], ts |-> t, now |-> t + 1] :
        s \in ImageSizes, t \in 1..MaxTs}

\* a freshly constructed sl.Mat(): no data, zero size
NewMat == [w |-> 0, h |-> 0]

\* Camera.retrieve_image(mat, view) / Camera.retrieve_measure(mat, measure):
\* the buffer takes the size of the grabbed frame
retrieve(mat, frame) == [w |-> frame.w, h |-> frame.h]

\* Camera.get_timestamp(reference)
get_timestamp(frame, ref) == IF ref = "IMAGE" THEN frame.ts ELSE frame.now

(***************************************************************************)
(* Result of one call of a function of the script:                         *)
(*   sdk     the device calls it made, in order                            *)
(*   printed the lines it printed, in order                                *)
(*   outcome "return", "raise" (exception escapes) or "exit" (exit(1))     *)
(*   value   the returned value, the exception name or the exit status     *)
(***************************************************************************)
Result(s, p, o, v) == [sdk |-> s, printed |-> p, outcome |-> o, value |-> v]

ResolutionLine(image, timestamp) ==
    Line("Image resolution : {0} x {1} || Image timestamp : {2}\n",
         <<image.w, image.h, timestamp>>)

----------------------------------------------------------------------------
(***************************************************************************)
(* initCamera(), lines 8-29.  err is the code zed.open returns, serial the *)
(* serial number the opened device reports.                                *)
(***************************************************************************)
initCamera_NoExit(err, serial) ==
    LET p0 == <<Line("Initializing camera...", <<>>)>>
        p1 == IF err # "SUCCESS"
              THEN Append(p0, Line("An unexpected error occurred while opening the camera.", <<>>))
              ELSE p0
    IN Result(<<"open">>,
              Append(p1, Line("Camera serial number: ", <<serial>>)),
              "return", Handle)

initCamera_Inverted(err, serial) ==
    LET p0 == <<Line("Initializing camera...", <<>>)>>
    IN IF err = "SUCCESS"
       THEN Result(<<"open">>,
                   Append(p0, Line("An unexpected error occurred while opening the camera.", <<>>)),
                   "exit", Fin(1))
       ELSE Result(<<"open">>,
                   Append(p0, Line("Camera serial number: ", <<serial>>)),
                   "return", Handle)

initCamera(err, serial) ==
    LET p0 == <<Line("Initializing camera...", <<>>)>>
    IN IF err # "SUCCESS"
       THEN Result(<<"open">>,
                   Append(p0, Line("An unexpected error occurred while opening the camera.", <<>>)),
                   "exit", Fin(1))
       ELSE Result(<<"open">>,
                   Append(p0, Line("Camera serial number: ", <<serial>>)),
                   "return", Handle)

(***************************************************************************)
(* captureImage(camera), lines 34-40.  grabRes is the code camera.grab()   *)
(* returns, frame what the device then holds.                              *)
(***************************************************************************)
captureImage_NoCheck(grabRes, frame) ==
    LET image == retrieve(NewMat, frame)
        timestamp == get_timestamp(frame, "IMAGE")
    IN Result(<<"grab", "retrieve_image", "get_timestamp">>,
              <<ResolutionLine(image, timestamp)>>, "return", None)

captureImage(grabRes, frame) ==
    IF grabRes = "SUCCESS"
    THEN LET image == retrieve(NewMat, frame)
             timestamp == get_timestamp(frame, "IMAGE")
         IN Result(<<"grab", "retrieve_image", "get_timestamp">>,
                   <<ResolutionLine(image, timestamp)>>, "return", None)
    ELSE Result(<<"grab">>, <<>>, "return", None)

(***************************************************************************)
(* getDepth(camera), lines 46-49.  camera.grab() is evaluated first, then  *)
(* the right operand sl.ERROR_CODE.success: the attribute access raises    *)
(* when the enumeration has no member of that name.                        *)
(***************************************************************************)
getDepth(grabRes, frame) ==
    LET success == GetAttr(ERROR_CODE, "success")
    IN IF ~success.ok
       THEN Result(<<"grab">>, <<>>, "raise", [k |-> "exc", v |-> success.v])
       ELSE IF grabRes = success.v
            THEN Result(<<"grab", "retrieve_measure">>, <<>>, "return", None)
            ELSE Result(<<"grab">>, <<>>, "return", None)

(***************************************************************************)
(* getImageandDepth(camera), lines 55-62.                                  *)
(***************************************************************************)
getImageandDepth_CurrentTime(grabRes, frame) ==
    IF grabRes = "SUCCESS"
    THEN LET image == retrieve(NewMat, frame)
             depth == retrieve(NewMat, frame)
             timestamp == get_timestamp(frame, "CURRENT")
         IN Result(<<"grab", "retrieve_image", "retrieve_measure", "get_timestamp">>,
                   <<ResolutionLine(image, timestamp)>>, "return", None)
    ELSE Result(<<"grab">>, <<>>, "return", None)

getImageandDepth(grabRes, frame) ==
    IF grabRes = "SUCCESS"
    THEN LET image == retrieve(NewMat, frame)
             depth == retrieve(NewMat, frame)
             timestamp == get_timestamp(frame, "IMAGE")
         IN Result(<<"grab", "retrieve_image", "retrieve_measure", "get_timestamp">>,
                   <<ResolutionLine(image, timestamp)>>, "return", None)
    ELSE Result(<<"grab">>, <<>>, "return", None)


----------------------------------------------------------------------------
(***************************************************************************)
(* Buffers and the point lookup.                                           *)
(***************************************************************************)
\* pixel coordinates used as query keys
Points == {<<0, 0>>, <<1, 0>>}

\* scalar depth values a depth buffer can hold: a valid distance, not-a-number
\* (occlusion) and infinite (out of range)
DepthValues == {Fin(2), NaN, Inf}

\* 3D points (x, y, z, rgba) a point-cloud buffer can hold
CloudValues ==
    {<<Fin(0), Fin(0), Fin(0), Fin(0)>>,
     <<Fin(3), Fin(4), Fin(0), Fin(0)>>,
     <<NaN, NaN, NaN, NaN>>}

\* one pixel of a buffer: set says whether the lookup succeeds; val is what
\* the lookup leaves in the value (arbitrary when the pixel is unset)
DepthCells == [set : BOOLEAN, val : DepthValues]
CloudCells == [set : BOOLEAN, val : CloudValues]

\* the objects handed to getDistForPoint as depth_map: a sl.Mat holding a
\* depth map, a sl.Mat holding a point cloud, or (as the script's main block
\* does) the sl.Camera object itself
DepthMats == {[kind |-> "Mat", type |-> "DEPTH", data |-> d] : d \in [Points -> DepthCells]}
CloudMats == {[kind |-> "Mat", type |-> "XYZRGBA", data |-> d] : d \in [Points -> CloudCells]}
CameraObj == [kind |-> "Camera", type |-> "none", data |-> <<>>]

\* Python attribute lookup obj.get_value: sl.Mat has the method, sl.Camera has not
HasGetValue(obj) == obj.kind = "Mat"

\* sl.Mat.get_value(x, y): the pair (ERROR_CODE, value), as line 75 unpacks it
get_value(mat, x, y) ==
    LET c == mat.data[<<x, y>>]
    IN Tuple2(IF c.set THEN "SUCCESS" ELSE "FAILURE", c.val)

\* Python ==: a tuple never equals a number, nan equals nothing
PyEq(a, b) ==
    IF IsScalar(a) /\ IsScalar(b)
    THEN (a.k = "fin" /\ b.k = "fin" /\ a.v = b.v) \/ (a.k = "inf" /\ b.k = "inf")
    ELSE FALSE

\* x ** 2 on a float
Sq(x) == IF x.k = "fin" THEN Fin(x.v * x.v) ELSE x

\* integer square root, standing for the float square root on the model's values
Isqrt(n) == CHOOSE r \in 0..n : r * r <= n /\ (r + 1) * (r + 1) > n

\* math.sqrt(*args): takes exactly one argument
math_sqrt(args) ==
    IF Len(args) # 1 THEN [ok |-> FALSE, v |-> [k |-> "exc", v |-> "TypeError"]]
    ELSE IF args[1].k = "fin" THEN [ok |-> TRUE, v |-> Fin(Isqrt(args[1].v))]
    ELSE [ok |-> TRUE, v |-> args[1]]

\* `if np.isnan(x):` and `if np.isinf(x):` — on a float the test; on a pair
\* (ERROR_CODE, value) numpy has no isnan/isinf for the object array (or the
\* truth value of a 2-element array is ambiguous): an exception
np_isnan(x) ==
    IF IsScalar(x) THEN [ok |-> TRUE, b |-> x.k = "nan"]
    ELSE [ok |-> FALSE, b |-> FALSE]

np_isinf(x) ==
    IF IsScalar(x) THEN [ok |-> TRUE, b |-> x.k = "inf"]
    ELSE [ok |-> FALSE, b |-> FALSE]

(***************************************************************************)
(* getDistForPoint(depth_map, point, depth_mode), lines 70-85.             *)
(* Lines 72 and 74 test the enumeration members sl.MEASURE.DEPTH and       *)
(* sl.MEASURE.XYZRGBA themselves, not depth_mode.                          *)
(***************************************************************************)
\* lines 71-78: the value of distance after the branch, or the exception
LookupDistance(depth_map, point, depth_mode) ==
    IF Truthy("DEPTH")
    THEN IF ~HasGetValue(depth_map)
         THEN [ok |-> FALSE, branch |-> "depth", printed |-> <<>>,
               distance |-> [k |-> "exc", v |-> "AttributeError"]]
         ELSE [ok |-> TRUE, branch |-> "depth", printed |-> <<>>,
               distance |-> get_value(depth_map, point[1], point[2])]
    ELSE IF Truthy("XYZRGBA")
    THEN IF ~HasGetValue(depth_map)
         THEN [ok |-> FALSE, branch |-> "cloud", printed |-> <<>>,
               distance |-> [k |-> "exc", v |-> "AttributeError"]]
         ELSE LET pair == get_value(depth_map, point[1], point[2])
                  point_cloud_val == pair.val
                  r == math_sqrt(<<Sq(point_cloud_val[1]), Sq(point_cloud_val[2]),
                                   Sq(point_cloud_val[3])>>)
              IN [ok |-> r.ok, branch |-> "cloud", printed |-> <<>>, distance |-> r.v]
    ELSE [ok |-> TRUE, branch |-> "unknown",
          printed |-> <<Line("Error: Unknown depth mode", <<>>)>>,
          distance |-> Fin(-1)]

getDistForPoint(depth_map, point, depth_mode) ==
    LET a == LookupDistance(depth_map, point, depth_mode)
        distance == a.distance
        p1 == IF PyEq(distance, Fin(-1))
              THEN Append(a.printed, Line("Error: Could not get distance for point", <<>>))
              ELSE a.printed
        nan == np_isnan(distance)
        p2 == IF nan.ok /\ nan.b
              THEN Append(p1, Line("Error: Maybe you're too close to the object?", <<>>))
              ELSE p1
        inf == np_isinf(distance)
        p3 == IF inf.ok /\ inf.b
              THEN Append(p2, Line("Error: Maybe you're too far from the object?", <<>>))
              ELSE p2
    IN IF ~a.ok THEN Result(<<>>, a.printed, "raise", a.distance)
       ELSE IF ~nan.ok THEN Result(<<>>, p1, "raise", [k |-> "exc", v |-> "TypeError"])
       ELSE IF ~inf.ok THEN Result(<<>>, p2, "raise", [k |-> "exc", v |-> "TypeError"])
       ELSE Result(<<>>, p3, "return", distance)


----------------------------------------------------------------------------
(***************************************************************************)
(* State.                                                                  *)
(***************************************************************************)
VARIABLES
    driver,      \* "main": run as a script; "import": functions called by a client
    pc,          \* main: the call of lines 88-92 to run next; "exited" once the process ended
    camState,    \* lifecycle state of the sl.Camera object: Unopened, Open, Closed
    zed,         \* "zed" once initCamera returned the handle, else "none"
    exitStatus,  \* -1 while the process runs, else its exit status
    openErr,     \* the code zed.open returned, "none" before the call
    last,        \* the last call of a function of the script: name, inputs, Result
    sdkLog,      \* every grab/retrieve/timestamp call made so far, with the
                 \* lifecycle state the camera was in when it was made
    report       \* per reporting function: the last frame it grabbed successfully
                 \* and the line it printed for it

vars == <<driver, pc, camState, zed, exitStatus, openErr, last, sdkLog, report>>

NoFrame == [w |-> 0, h |-> 0, ts |-> 0, now |-> 0]
NoReport == [frame |-> NoFrame, lines |-> <<>>]
DataCalls == {"grab", "retrieve_image", "retrieve_measure", "get_timestamp"}

\* the script's main block, lines 88-92: the call that follows each call
MainNext(fn) ==
    CASE fn = "initCamera" -> "captureImage"
      [] fn = "captureImage" -> "getDepth"
      [] fn = "getDepth" -> "getDistForPoint"
      [] fn = "getDistForPoint" -> "close"
      [] fn = "close" -> "done"

\* a call of fn can be made now: in the script when it is the next call, by a
\* client at any time (the functions other than initCamera and getDistForPoint
\* take the handle initCamera returned)
Callable(fn, needsHandle) ==
    /\ exitStatus = -1
    /\ IF driver = "main" THEN pc = fn
       ELSE IF needsHandle THEN zed = "zed" ELSE TRUE

\* the device calls of a Result, each with the camera's state when made
Logged(r) == {[call |-> r.sdk[i], state |-> camState] :
                 i \in {j \in 1..Len(r.sdk) : r.sdk[j] \in DataCalls}}

\* what a call's outcome does to the process: exit(1) ends it with that
\* status; an exception ends the script with status 1 (uncaught) and is
\* survived by a client; the script ends with status 0 after its last call
Finish(fn, r) ==
    /\ pc' = IF r.outcome = "exit" THEN "exited"
             ELSE IF driver = "main"
                  THEN (IF r.outcome = "raise" THEN "exited" ELSE MainNext(fn))
                  ELSE pc
    /\ exitStatus' = IF r.outcome = "exit" THEN r.value.v
                     ELSE IF driver = "main" /\ r.outcome = "raise" THEN 1
                     ELSE IF driver = "main" /\ MainNext(fn) = "done" THEN 0
                     ELSE exitStatus

Init ==
    /\ driver \in {"main", "import"}
    /\ pc = IF driver = "main" THEN "initCamera" ELSE "client"
    /\ camState = "Unopened"
    /\ zed = "none"
    /\ exitStatus = -1
    /\ openErr = "none"
    /\ last = [fn |-> "none", in |-> None, res |-> Result(<<>>, <<>>, "none", None)]
    /\ sdkLog = {}
    /\ report = [f \in {"captureImage", "getImageandDepth"} |-> NoReport]

\* zed = initCamera(), line 88
InitCamera ==
    /\ Callable("initCamera", FALSE)
    /\ zed = "none"
    /\ \E err \in OpenResults, serial \in 1..MaxSerial :
          LET r == initCamera(err, serial)
          IN /\ camState' = IF err = "SUCCESS" THEN "Open" ELSE camState
             /\ openErr' = err
             /\ zed' = IF r.outcome = "return" THEN "zed" ELSE zed
             /\ last' = [fn |-> "initCamera",
                         in |-> [err |-> err, serial |-> serial], res |-> r]
             /\ Finish("initCamera", r)
    /\ UNCHANGED <<driver, sdkLog, report>>

\* a call of one of the three grabbing functions: the device answers the
\* grab with a result code and, on success, holds a new frame
Grabbing(fn, r, g, fr) ==
    /\ last' = [fn |-> fn, in |-> [grab |-> g, frame |-> fr], res |-> r]
    /\ sdkLog' = sdkLog \cup Logged(r)
    /\ report' = IF fn \in DOMAIN report /\ r.printed # <<>>
                 THEN [report EXCEPT ![fn] = [frame |-> fr, lines |-> r.printed]]
                 ELSE report
    /\ Finish(fn, r)
    /\ UNCHANGED <<driver, camState, zed, openErr>>

\* captureImage(zed), line 89
CaptureImage ==
    /\ Callable("captureImage", TRUE)
    /\ \E g \in GrabResults(camState) :
       \E fr \in IF g = "SUCCESS" THEN Frames ELSE {NoFrame} :
          Grabbing("captureImage", captureImage(g, fr), g, fr)

\* getDepth(zed), line 90
GetDepth ==
    /\ Callable("getDepth", TRUE)
    /\ \E g \in GrabResults(camState) :
       \E fr \in IF g = "SUCCESS" THEN Frames ELSE {NoFrame} :
          Grabbing("getDepth", getDepth(g, fr), g, fr)

\* getImageandDepth(camera): not called by the script, only by a client
GetImageandDepth ==
    /\ driver = "import"
    /\ Callable("getImageandDepth", TRUE)
    /\ \E g \in GrabResults(camState) :
       \E fr \in IF g = "SUCCESS" THEN Frames ELSE {NoFrame} :
          Grabbing("getImageandDepth", getImageandDepth(g, fr), g, fr)

\* the arguments of getDistForPoint: the script passes the camera object, the
\* point (0,0) and sl.MEASURE.DEPTH (line 91); a client passes any buffer
DistArgs ==
    IF driver = "main"
    THEN {<<CameraObj, <<0, 0>>, "DEPTH">>}
    ELSE (DepthMats \cup CloudMats \cup {CameraObj}) \X Points \X MEASURE

\* getDistForPoint(zed, (0,0), sl.MEASURE.DEPTH), line 91
GetDistForPoint ==
    /\ Callable("getDistForPoint", FALSE)
    /\ \E a \in DistArgs :
          LET r == getDistForPoint(a[1], a[2], a[3])
          IN /\ last' = [fn |-> "getDistForPoint",
                         in |-> [kind |-> a[1].kind, type |-> a[1].type,
                                 cell |-> IF a[1].kind = "Mat" THEN a[1].data[a[2]] ELSE None,
                                 point |-> a[2], mode |-> a[3]],
                         res |-> r]
             /\ Finish("getDistForPoint", r)
    /\ UNCHANGED <<driver, camState, zed, openErr, sdkLog, report>>

\* zed.close(), line 92
Close ==
    /\ Callable("close", TRUE)
    /\ camState' = "Closed"
    /\ last' = [fn |-> "close", in |-> None, res |-> Result(<<"close">>, <<>>, "return", None)]
    /\ Finish("close", last'.res)
    /\ UNCHANGED <<driver, zed, openErr, sdkLog, report>>

Next ==
    \/ InitCamera
    \/ CaptureImage
    \/ GetDepth
    \/ GetImageandDepth
    \/ GetDistForPoint
    \/ Close

Spec == Init /\ [][Next]_vars

----------------------------------------------------------------------------
(***************************************************************************)
(* Properties.                                                             *)
(***************************************************************************)
\* the result r printed a line with this text
Printed(r, text) == \E i \in 1..Len(r.printed) : r.printed[i].text = text

SerialText == "Camera serial number: "
OpenFailedText == "An unexpected error occurred while opening the camera."
NoDistanceText == "Error: Could not get distance for point"
TooCloseText == "Error: Maybe you're too close to the object?"
TooFarText == "Error: Maybe you're too far from the object?"

Retrievals == {"retrieve_image", "retrieve_measure", "get_timestamp"}
Calls(r, names) == {i \in 1..Len(r.sdk) : r.sdk[i] \in names}

\* the last call was getDistForPoint on a buffer of the type its mode names
DistOn(mode) ==
    /\ last.fn = "getDistForPoint"
    /\ last.in.kind = "Mat"
    /\ last.in.type = mode
    /\ last.in.mode = mode

\* C1: initCamera has exactly two outcomes.  When open returned SUCCESS it
\* prints the serial number and returns the handle (no failure diagnostic,
\* the process keeps running); for every other code it prints the failure
\* diagnostic and the process exits with status 1, with no serial number
\* printed and no handle returned.
C1_InitCameraTwoOutcomes ==
    last.fn = "initCamera" =>
        \/ /\ last.in.err = "SUCCESS"
           /\ last.res.outcome = "return"
           /\ last.res.value = Handle
           /\ last.res.printed[Len(last.res.printed)] =
                  Line(SerialText, <<last.in.serial>>)
           /\ ~Printed(last.res, OpenFailedText)
           /\ zed = "zed"
           /\ exitStatus = -1
        \/ /\ last.in.err # "SUCCESS"
           /\ last.res.outcome = "exit"
           /\ Printed(last.res, OpenFailedText)
           /\ ~Printed(last.res, SerialText)
           /\ zed = "none"
           /\ exitStatus = 1
           /\ pc = "exited"

C1_Witness ==
    /\ last.fn = "initCamera"
    /\ last.in.err = "CAMERA_NOT_DETECTED"
    /\ exitStatus = 1

\* C2: the script ends with status 1 if and only if the camera open failed;
\* whenever the open succeeded it runs to its end and exits with status 0.
C2_ExitOneIffOpenFailed ==
    (driver = "main" /\ exitStatus # -1) =>
        /\ exitStatus = 1 <=> openErr # "SUCCESS"
        /\ openErr = "SUCCESS" => (exitStatus = 0 /\ pc = "done")

\* C3: on a buffer of either supported mode, whatever the pixel holds,
\* getDistForPoint raises nothing and returns a single float.
C3_DistNeverRaises ==
    (DistOn("DEPTH") \/ DistOn("XYZRGBA")) =>
        (last.res.outcome = "return" /\ IsScalar(last.res.value))

\* C4: getDistForPoint in mode DEPTH on a depth buffer whose queried pixel is
\* unset returns -1 and prints "Could not get distance for point".
C4_UnsetPixelGivesSentinel ==
    (DistOn("DEPTH") /\ ~last.in.cell.set) =>
        /\ last.res.outcome = "return"
        /\ last.res.value = Fin(-1)
        /\ Printed(last.res, NoDistanceText)

\* C5: getDistForPoint in mode XYZRGBA on a point-cloud buffer returns the
\* Euclidean distance of the looked-up point from the origin (0 for the
\* point (0,0,0)).
C5_CloudGivesEuclideanDistance ==
    (DistOn("XYZRGBA") /\ last.in.cell.set /\ last.in.cell.val[1].k = "fin") =>
        LET v == last.in.cell.val
        IN /\ last.res.outcome = "return"
           /\ last.res.value =
                  Fin(Isqrt(v[1].v * v[1].v + v[2].v * v[2].v + v[3].v * v[3].v))

\* C6: in a run of the script every grab, retrieve_image, retrieve_measure
\* and get_timestamp call is made while the camera is Open (after a
\* successful open, before close), and the camera's lifecycle state changes
\* only Unopened -> Open by the open call and Open -> Closed by the close call.
C6_GrabOnlyWhileOpen ==
    /\ [](driver = "main" => \A c \in sdkLog : c.state = "Open")
    /\ [][camState' # camState =>
            \/ (camState = "Unopened" /\ camState' = "Open" /\ last'.fn = "initCamera"
                    /\ last'.in.err = "SUCCESS")
            \/ (camState = "Open" /\ camState' = "Closed" /\ last'.fn = "close")]_vars

C6_Witness ==
    /\ driver = "main"
    /\ [call |-> "grab", state |-> "Open"] \in sdkLog
    /\ [call |-> "retrieve_image", state |-> "Open"] \in sdkLog
    /\ [call |-> "get_timestamp", state |-> "Open"] \in sdkLog

\* C7: in captureImage, getDepth and getImageandDepth there is exactly one
\* grab, made first; a retrieve_image, retrieve_measure or get_timestamp call
\* is made only when that grab returned SUCCESS; when the grab failed the
\* function makes no further device call and prints nothing.
C7_RetrieveOnlyAfterGoodGrab ==
    last.fn \in {"captureImage", "getDepth", "getImageandDepth"} =>
        /\ Len(last.res.sdk) >= 1
        /\ last.res.sdk[1] = "grab"
        /\ Cardinality(Calls(last.res, {"grab"})) = 1
        /\ Calls(last.res, Retrievals) # {} => last.in.grab = "SUCCESS"
        /\ last.in.grab # "SUCCESS" =>
               (last.res.sdk = <<"grab">> /\ last.res.printed = <<>>)

C7_Witness ==
    /\ last.fn = "getImageandDepth"
    /\ last.in.grab = "SUCCESS"
    /\ last.res.sdk = <<"grab", "retrieve_image", "retrieve_measure", "get_timestamp">>
    /\ report["captureImage"] # NoReport

\* C8: getDepth returns normally; it calls retrieve_measure exactly when its
\* grab returned SUCCESS.
C8_GetDepthRetrievesOnSuccess ==
    last.fn = "getDepth" =>
        /\ last.res.outcome = "return"
        /\ last.in.grab = "SUCCESS" <=> Calls(last.res, {"retrieve_measure"}) # {}

\* C9: when captureImage and getImageandDepth each reported a successfully
\* grabbed frame of the same width, height and image timestamp, the lines
\* they printed are identical (same width, height and timestamp).
C9_SameFrameSameReport ==
    LET a == report["captureImage"]
        b == report["getImageandDepth"]
    IN (/\ a # NoReport
        /\ b # NoReport
        /\ a.frame.w = b.frame.w
        /\ a.frame.h = b.frame.h
        /\ a.frame.ts = b.frame.ts) => a.lines = b.lines

C9_Witness ==
    /\ report["captureImage"] # NoReport
    /\ report["getImageandDepth"] # NoReport
    /\ report["captureImage"].frame = report["getImageandDepth"].frame
    /\ last.fn = "getImageandDepth"
    /\ last.res.printed # <<>>

\* C10: on a depth buffer getDistForPoint returns the looked-up value
\* unchanged, having printed "too close" when it is not-a-number and
\* "too far" when it is infinite.
C10_DiagnosticsAdvisory ==
    (DistOn("DEPTH") /\ last.in.cell.set) =>
        /\ last.res.outcome = "return"
        /\ last.res.value = last.in.cell.val
        /\ last.in.cell.val.k = "nan" => Printed(last.res, TooCloseText)
        /\ last.in.cell.val.k = "inf" => Printed(last.res, TooFarText)

=============================================================================
